---- MODULE Spec2Model ----
(***************************************************************************)
(* CHIP-8 interpreter of src/src/main.rs: the Chip8 struct with its        *)
(* Display, the fetch / decode / tick cycle and the main loop              *)
(* tick -> render -> get_input; and the Display of src/src/display.rs,     *)
(* which main.rs does not use, under a caller of its public operations.    *)
(*                                                                         *)
(* Representation.                                                         *)
(*  - A display row (u64 / u128) is the set of its set bit positions, bit  *)
(*    0 the least significant; XOR is the symmetric difference, AND the    *)
(*    intersection, a shift a translation that drops what leaves the word. *)
(*  - memory (Vec<u8> of 4096 cells) is the function from the addresses of *)
(*    its nonzero cells to their bytes; every other cell in 0..4095 is 0.  *)
(*  - Option<u8> is a byte, or None.                                       *)
(***************************************************************************)
EXTENDS Integers, Sequences, FiniteSets

VARIABLES
    hi_mode,    \* Display.hi_mode
    lo_res,     \* Display.lo_res : [u64; 32]
    hi_res,     \* Display.hi_res : [u128; 64]
    input,      \* Chip8.input : Option<u8>
    memory,     \* Chip8.memory
    pc,         \* Chip8.pc
    i,          \* Chip8.i
    stack,      \* Chip8.stack, top of the stack last
    v,          \* Chip8.v : [u8; 16]
    dt,         \* Chip8.dt
    st,         \* Chip8.st
    ctl,        \* position of the process, one of Ctl
    depth,      \* number of active invocations of tick
    events,     \* the event pump's queue of pending key codes
    ticks,      \* ticks main has yet to start in this run
    hist,       \* the last ticks started, most recent first: state before, opcode
    disp,       \* the Display of display.rs: changed, hi_mode, lo_res, hi_res
    build,      \* the build profile: "debug" checks integer overflow, "release" wraps
    calls,      \* the operations called on disp so far, in order
    shown,      \* the rows of disp the last render read
    drawn       \* the last call of draw on disp: display before, arguments, result

\* The variables of the Display of display.rs and of its caller
dvars == <<disp, build, calls, shown, drawn>>

\* The variables of the Chip8 of main.rs and of its process
cvars == <<hi_mode, lo_res, hi_res, input, memory, pc, i, stack, v, dt, st,
           ctl, depth, events, ticks, hist>>

vars == <<cvars, dvars>>

\* ------------------------------------------------------------------ bounds
\* Tick invocations the thread's stack has room for.
MaxDepth == 3
\* Events the pump holds.
MaxEvents == 1
\* Operations a caller makes on the Display of display.rs.
MaxCalls == 3

\* --------------------------------------------------------------- constants
None == -1
MEM_SIZE == 4096
FONT_BASE == 80
ROM_BASE == 512
LO_ROWS == 32
HI_ROWS == 64
HistLen == 3

FONT ==
    << 240, 144, 144, 144, 240,   32,  96,  32,  32, 112,
       240,  16, 240, 128, 240,  240,  16, 240,  16, 240,
       144, 144, 240,  16,  16,  240, 128, 240,  16, 240,
       240, 128, 240, 144, 240,  240,  16,  32,  64,  64,
       240, 144, 240, 144, 240,  240, 144, 240,  16, 240,
       240, 144, 240, 144, 144,  224, 144, 224, 144, 224,
       240, 128, 128, 128, 240,  224, 144, 144, 144, 224,
       240, 128, 240, 128, 240,  240, 128, 240, 128, 128 >>

\* ------------------------------------------------------------- bytes, bits
Bit(b, j) == (b \div (2 ^ j)) % 2

BitAnd(a, b) ==
    LET t(j) == IF Bit(a, j) = 1 /\ Bit(b, j) = 1 THEN 2 ^ j ELSE 0
    IN  t(0) + t(1) + t(2) + t(3) + t(4) + t(5) + t(6) + t(7)

BitOr(a, b) ==
    LET t(j) == IF Bit(a, j) = 1 \/ Bit(b, j) = 1 THEN 2 ^ j ELSE 0
    IN  t(0) + t(1) + t(2) + t(3) + t(4) + t(5) + t(6) + t(7)

BitXor(a, b) ==
    LET t(j) == IF Bit(a, j) # Bit(b, j) THEN 2 ^ j ELSE 0
    IN  t(0) + t(1) + t(2) + t(3) + t(4) + t(5) + t(6) + t(7)

\* Nibbles for u16
x(w) == (w \div 256) % 16
y(w) == (w \div 16) % 16
n(w) == w % 16
nn(w) == w % 256
nnn(w) == w % 4096

\* ------------------------------------------------------------------ memory
MemGet(mem, a) == IF a \in DOMAIN mem THEN mem[a] ELSE 0

\* memory[a + k] = bs[k + 1] for every k in 0 .. Len(bs) - 1
MemSetAll(mem, a, bs) ==
    LET span == a .. a + Len(bs) - 1
        dom == (DOMAIN mem \ span) \cup {c \in span : bs[c - a + 1] # 0}
    IN  [c \in dom |-> IF c \in span THEN bs[c - a + 1] ELSE mem[c]]

MemSet(mem, a, b) == MemSetAll(mem, a, <<b>>)

\* Chip8::new: 512 cells with FONT at 0x50, the file's bytes appended, then
\* resized to 4096 cells (a longer file is cut there).
Load(rom) ==
    LET cut == IF Len(rom) > MEM_SIZE - ROM_BASE
               THEN SubSeq(rom, 1, MEM_SIZE - ROM_BASE) ELSE rom
    IN  MemSetAll(MemSetAll(<< >>, FONT_BASE, FONT), ROM_BASE, cut)

\* ----------------------------------------------------------------- display
BlankLo == [r \in 0 .. LO_ROWS - 1 |-> {}]
BlankHi == [r \in 0 .. HI_ROWS - 1 |-> {}]

SymDiff(a, b) == (a \ b) \cup (b \ a)

\* u64::from_be_bytes([b, 0, 0, 0, 0, 0, 0, 0]) >> col
SpriteLo(b, col) ==
    {56 + j - col : j \in {k \in 0 .. 7 : Bit(b, k) = 1 /\ 56 + k - col >= 0}}

\* u128::from_be_bytes([b, 0, ..., 0]) >> col
SpriteHi(b, col) ==
    {120 + j - col : j \in {k \in 0 .. 7 : Bit(b, k) = 1 /\ 120 + k - col >= 0}}

\* The rows of the loop of Display::draw: it breaks at the first row past
\* the bottom, so it visits rows row .. min(row + len, height) - 1.
DrawnRows(row, len, height) ==
    {r \in 0 .. height - 1 : row <= r /\ r < row + len}

\* Display::draw with |= in place of ^= (a mutant of Draw)
DrawOr(d, col, row, sprite) ==
    IF d.hi_mode
    THEN LET rs == DrawnRows(row, Len(sprite), HI_ROWS)
             sp(r) == SpriteHi(sprite[r - row + 1], col)
         IN  [d   |-> [d EXCEPT !.hi_res =
                          [r \in 0 .. HI_ROWS - 1 |->
                              IF r \in rs THEN d.hi_res[r] \cup sp(r)
                              ELSE d.hi_res[r]]],
              res |-> \E r \in rs : d.hi_res[r] \cap sp(r) # {}]
    ELSE LET rs == DrawnRows(row, Len(sprite), LO_ROWS)
             sp(r) == SpriteLo(sprite[r - row + 1], col)
         IN  [d   |-> [d EXCEPT !.lo_res =
                          [r \in 0 .. LO_ROWS - 1 |->
                              IF r \in rs THEN d.lo_res[r] \cup sp(r)
                              ELSE d.lo_res[r]]],
              res |-> \E r \in rs : d.lo_res[r] \cap sp(r) # {}]

\* Display::draw: [d |-> the display after, res |-> the returned collision]
Draw(d, col, row, sprite) ==
    IF d.hi_mode
    THEN LET rs == DrawnRows(row, Len(sprite), HI_ROWS)
             sp(r) == SpriteHi(sprite[r - row + 1], col)
         IN  [d   |-> [d EXCEPT !.hi_res =
                          [r \in 0 .. HI_ROWS - 1 |->
                              IF r \in rs THEN SymDiff(d.hi_res[r], sp(r))
                              ELSE d.hi_res[r]]],
              res |-> \E r \in rs : d.hi_res[r] \cap sp(r) # {}]
    ELSE LET rs == DrawnRows(row, Len(sprite), LO_ROWS)
             sp(r) == SpriteLo(sprite[r - row + 1], col)
         IN  [d   |-> [d EXCEPT !.lo_res =
                          [r \in 0 .. LO_ROWS - 1 |->
                              IF r \in rs THEN SymDiff(d.lo_res[r], sp(r))
                              ELSE d.lo_res[r]]],
              res |-> \E r \in rs : d.lo_res[r] \cap sp(r) # {}]

\* Display::clear filling the array of the other mode (a mutant of Clear)
ClearOther(d) ==
    IF d.hi_mode THEN [d EXCEPT !.lo_res = BlankLo]
    ELSE [d EXCEPT !.hi_res = BlankHi]

\* Display::clear
Clear(d) ==
    IF d.hi_mode THEN [d EXCEPT !.hi_res = BlankHi]
    ELSE [d EXCEPT !.lo_res = BlankLo]

\* The two loops of one branch of Display::scroll_down over an array of
\* `height` rows: rows rows..height-1 take the row `rows` above them, from
\* the back, then rows 0..rows-1 are zeroed.
ShiftRowsDown(arr, rows, height) ==
    [r \in DOMAIN arr |->
        IF r < rows THEN {}
        ELSE IF r < height THEN arr[r - rows]
        ELSE arr[r]]

\* Display::scroll_down: both branches index hi_res.
ScrollDown(d, rows) ==
    IF d.hi_mode
    THEN [d EXCEPT !.hi_res = ShiftRowsDown(d.hi_res, rows, HI_ROWS)]
    ELSE [d EXCEPT !.hi_res = ShiftRowsDown(d.hi_res, rows, LO_ROWS)]

\* *row >>= 4 on every row of the active array
ScrollRight(d) ==
    IF d.hi_mode
    THEN [d EXCEPT !.hi_res =
             [r \in DOMAIN d.hi_res |-> {b - 4 : b \in {c \in d.hi_res[r] : c >= 4}}]]
    ELSE [d EXCEPT !.lo_res =
             [r \in DOMAIN d.lo_res |-> {b - 4 : b \in {c \in d.lo_res[r] : c >= 4}}]]

\* *row <<= 4 on every row of the active array
ScrollLeft(d) ==
    IF d.hi_mode
    THEN [d EXCEPT !.hi_res =
             [r \in DOMAIN d.hi_res |-> {b + 4 : b \in {c \in d.hi_res[r] : c + 4 <= 127}}]]
    ELSE [d EXCEPT !.lo_res =
             [r \in DOMAIN d.lo_res |-> {b + 4 : b \in {c \in d.lo_res[r] : c + 4 <= 63}}]]

\* The rows of the active resolution of a display
ActiveRows(d) == IF d.hi_mode THEN d.hi_res ELSE d.lo_res
ActiveHeight(d) == IF d.hi_mode THEN HI_ROWS ELSE LO_ROWS

\* ------------------------------------------------- the Display of display.rs
\* Display::default
Display_default ==
    [changed |-> FALSE, hi_mode |-> FALSE, lo_res |-> BlankLo, hi_res |-> BlankHi]

\* The build profiles of the crate
Builds == {"debug", "release"}

\* 56 - x and 120 - x on u8 overflow for x past 56 and 120: a debug build
\* panics there.
ShiftOverflows(d, col) == IF d.hi_mode THEN col > 120 ELSE col > 56

\* (b as u64) << (56 - x).  A release build wraps 56 - x in u8 and takes the
\* shift amount modulo the 64 bits of the word.
ShlLo(b, col) ==
    LET s == IF col <= 56 THEN 56 - col ELSE ((56 - col) + 256) % 64
    IN  {j + s : j \in {k \in 0 .. 7 : Bit(b, k) = 1 /\ k + s <= 63}}

\* (b as u128) << (120 - x), likewise modulo 128
ShlHi(b, col) ==
    LET s == IF col <= 120 THEN 120 - col ELSE ((120 - col) + 256) % 128
    IN  {j + s : j \in {k \in 0 .. 7 : Bit(b, k) = 1 /\ k + s <= 127}}

\* Display::draw of display.rs: [d |-> the display after, res |-> the
\* returned collision, trap |-> "ok" or "panic"]
Display_draw(d, col, row, sprite, bld) ==
    LET d1 == [d EXCEPT !.changed = TRUE]
        height == IF d.hi_mode THEN HI_ROWS ELSE LO_ROWS
        rs == DrawnRows(row, Len(sprite), height)
        sp(r) == IF d.hi_mode THEN ShlHi(sprite[r - row + 1], col)
                 ELSE ShlLo(sprite[r - row + 1], col)
    IN  IF rs # {} /\ bld = "debug" /\ ShiftOverflows(d, col)
        THEN [d |-> d1, res |-> FALSE, trap |-> "panic"]
        ELSE IF d.hi_mode
        THEN [d    |-> [d1 EXCEPT !.hi_res =
                           [r \in 0 .. HI_ROWS - 1 |->
                               IF r \in rs THEN SymDiff(d.hi_res[r], sp(r))
                               ELSE d.hi_res[r]]],
              res  |-> \E r \in rs : d.hi_res[r] \cap sp(r) # {},
              trap |-> "ok"]
        ELSE [d    |-> [d1 EXCEPT !.lo_res =
                           [r \in 0 .. LO_ROWS - 1 |->
                               IF r \in rs THEN SymDiff(d.lo_res[r], sp(r))
                               ELSE d.lo_res[r]]],
              res  |-> \E r \in rs : d.lo_res[r] \cap sp(r) # {},
              trap |-> "ok"]

\* Display::changed
Display_changed(d) == d.changed

\* Display::render: the rows are only read; self.changed = false
Display_render(d) == [d EXCEPT !.changed = FALSE]

\* Display::clear of display.rs
Display_clear(d) == [Clear(d) EXCEPT !.changed = TRUE]

\* Display::scroll_down, scroll_right and scroll_left of display.rs: the
\* bodies of those of main.rs; changed is not assigned.
Display_scroll_down(d, rows) == ScrollDown(d, rows)
Display_scroll_right(d) == ScrollRight(d)
Display_scroll_left(d) == ScrollLeft(d)

\* ------------------------------------------------------------ the machine
\* The Chip8 struct as a record, for the operators below.
Machine ==
    [display |-> [hi_mode |-> hi_mode, lo_res |-> lo_res, hi_res |-> hi_res],
     input |-> input, memory |-> memory, pc |-> pc, i |-> i, stack |-> stack,
     v |-> v, dt |-> dt, st |-> st]

\* What a piece of decode or tick yields: the machine after it and how it
\* ended: "ok", "panic" (a Rust panic: the process is gone), or "keywait"
\* (Fx0A found no key and is about to call tick again).
Ok(m) == [m |-> m, trap |-> "ok"]
Panic(m) == [m |-> m, trap |-> "panic"]
KeyWait(m) == [m |-> m, trap |-> "keywait"]

\* Chip8::fetch.  pc stays far below 2^16 (at most 0xFFF + 0xFF + 4), so
\* pc += 2 never wraps; indexing past the 4096 cells panics.
Fetch(m) ==
    [m |-> [m EXCEPT !.pc = m.pc + 2],
     instruction |-> MemGet(m.memory, m.pc) * 256 + MemGet(m.memory, m.pc + 1),
     trap |-> IF m.pc + 1 >= MEM_SIZE THEN "panic" ELSE "ok"]

Skip(m, cond) == Ok(IF cond THEN [m EXCEPT !.pc = m.pc + 2] ELSE m)

SetV(m, k, b) == [m EXCEPT !.v[k] = b]

Last(s) == s[Len(s)]
Front(s) == SubSeq(s, 1, Len(s) - 1)

\* 00EE that pops only when there is something to pop (a mutant of Return)
ReturnIgnoresEmpty(m) ==
    IF m.stack = << >> THEN Ok(m)
    ELSE Ok([m EXCEPT !.pc = Last(m.stack), !.stack = Front(m.stack)])

\* 0x0EE => self.pc = self.stack.pop().expect("stack is empty")
Return(m) ==
    IF m.stack = << >> THEN Panic(m)
    ELSE Ok([m EXCEPT !.pc = Last(m.stack), !.stack = Front(m.stack)])

\* A call that pushes the address of the call itself (a mutant of Call)
CallPushesOwnAddress(m, w) ==
    Ok([m EXCEPT !.stack = Append(m.stack, m.pc - 2), !.pc = nnn(w)])

\* 0x2 => self.stack.push(self.pc); self.pc = instruction.nnn()
Call(m, w) ==
    Ok([m EXCEPT !.stack = Append(m.stack, m.pc), !.pc = nnn(w)])

\* 7xnn with the carry written to VF (a mutant of AddLiteral)
AddLiteralSetsCarry(m, w) ==
    LET sum == m.v[x(w)] + nn(w)
    IN  Ok(SetV(SetV(m, x(w), sum % 256), 15, IF sum > 255 THEN 1 ELSE 0))

\* 0x7 => v[x] = v[x].wrapping_add(nn)
AddLiteral(m, w) == Ok(SetV(m, x(w), (m.v[x(w)] + nn(w)) % 256))

\* 8xy4 with VF written before Vx (a mutant of AddCarry)
AddCarryFlagFirst(m, w) ==
    LET sum == m.v[x(w)] + m.v[y(w)]
    IN  Ok(SetV(SetV(m, 15, IF sum > 255 THEN 1 ELSE 0), x(w), sum % 256))

\* 8xy4: overflowing_add, Vx first and VF after it
AddCarry(m, w) ==
    LET sum == m.v[x(w)] + m.v[y(w)]
    IN  Ok(SetV(SetV(m, x(w), sum % 256), 15, IF sum > 255 THEN 1 ELSE 0))

\* 8xy5 with VF = carry (a mutant of SubBorrow)
SubBorrowFlagIsBorrow(m, w) ==
    LET a == m.v[x(w)]
        b == m.v[y(w)]
    IN  Ok(SetV(SetV(m, x(w), (a + 256 - b) % 256), 15, IF a < b THEN 1 ELSE 0))

\* 8xy5: overflowing_sub(Vx, Vy), VF = !carry
SubBorrow(m, w) ==
    LET a == m.v[x(w)]
        b == m.v[y(w)]
    IN  Ok(SetV(SetV(m, x(w), (a + 256 - b) % 256), 15, IF a < b THEN 0 ELSE 1))

\* 8xy7: overflowing_sub(Vy, Vx), VF = !carry
SubReverse(m, w) ==
    LET a == m.v[y(w)]
        b == m.v[x(w)]
    IN  Ok(SetV(SetV(m, x(w), (a + 256 - b) % 256), 15, IF a < b THEN 0 ELSE 1))

\* 8xy6: VF = Vx & 1, then Vx >>= 1
ShiftRight(m, w) ==
    LET m1 == SetV(m, 15, m.v[x(w)] % 2)
    IN  Ok(SetV(m1, x(w), m1.v[x(w)] \div 2))

\* 8xyE: VF = Vx >> 7 & 1, then Vx <<= 1
ShiftLeft(m, w) ==
    LET m1 == SetV(m, 15, (m.v[x(w)] \div 128) % 2)
    IN  Ok(SetV(m1, x(w), (m1.v[x(w)] * 2) % 256))

\* The 0x8 family with a panic in its last arm (a mutant of Alu)
AluInvalidPanics(m, w) ==
    CASE n(w) = 0 -> Ok(SetV(m, x(w), m.v[y(w)]))
      [] n(w) = 1 -> Ok(SetV(m, x(w), BitOr(m.v[x(w)], m.v[y(w)])))
      [] n(w) = 2 -> Ok(SetV(m, x(w), BitAnd(m.v[x(w)], m.v[y(w)])))
      [] n(w) = 3 -> Ok(SetV(m, x(w), BitXor(m.v[x(w)], m.v[y(w)])))
      [] n(w) = 4 -> AddCarry(m, w)
      [] n(w) = 5 -> SubBorrow(m, w)
      [] n(w) = 6 -> ShiftRight(m, w)
      [] n(w) = 7 -> SubReverse(m, w)
      [] n(w) = 14 -> ShiftLeft(m, w)
      [] OTHER -> Panic(m)

\* The 0x8 family
Alu(m, w) ==
    CASE n(w) = 0 -> Ok(SetV(m, x(w), m.v[y(w)]))
      [] n(w) = 1 -> Ok(SetV(m, x(w), BitOr(m.v[x(w)], m.v[y(w)])))
      [] n(w) = 2 -> Ok(SetV(m, x(w), BitAnd(m.v[x(w)], m.v[y(w)])))
      [] n(w) = 3 -> Ok(SetV(m, x(w), BitXor(m.v[x(w)], m.v[y(w)])))
      [] n(w) = 4 -> AddCarry(m, w)
      [] n(w) = 5 -> SubBorrow(m, w)
      [] n(w) = 6 -> ShiftRight(m, w)
      [] n(w) = 7 -> SubReverse(m, w)
      [] n(w) = 14 -> ShiftLeft(m, w)
      [] OTHER -> Ok(m)   \* println!("Invalid instruction")

\* The sprite of Dxyn: memory[i + row] for row in 0..n
SpriteBytes(m, len) == [k \in 1 .. len |-> MemGet(m.memory, m.i + k - 1)]

\* 0xD without self.v[0xF] = 0: VF is only ever set (a mutant of DrawSprite)
DrawSpriteKeepsFlag(m, w) ==
    LET col == m.v[x(w)] % 64
        row == m.v[y(w)] % 32
        out == Draw(m.display, col, row, SpriteBytes(m, n(w)))
    IN  IF n(w) > 0 /\ m.i + n(w) - 1 >= MEM_SIZE THEN Panic(m)
        ELSE Ok([m EXCEPT !.display = out.d,
                          !.v[15] = IF out.res THEN 1 ELSE m.v[15]])

\* 0xD: VF = 0 first, so an operand register F reads as 0
DrawSprite(m, w) ==
    LET m0 == SetV(m, 15, 0)
        col == m0.v[x(w)] % 64
        row == m0.v[y(w)] % 32
        out == Draw(m0.display, col, row, SpriteBytes(m0, n(w)))
    IN  IF n(w) > 0 /\ m0.i + n(w) - 1 >= MEM_SIZE THEN Panic(m)
        ELSE Ok([m0 EXCEPT !.display = out.d,
                           !.v[15] = IF out.res THEN 1 ELSE 0])

\* Fx0A
WaitKey(m, w) ==
    IF m.input # None THEN Ok(SetV(m, x(w), m.input))
    ELSE KeyWait([m EXCEPT !.pc = m.pc - 2])   \* then self.tick()

\* Fx1E without the test for a wrap of the 16-bit sum (a mutant of AddIndex)
AddIndexNoWrapTest(m, w) ==
    LET res == (m.i + m.v[x(w)]) % 65536
    IN  Ok([m EXCEPT !.i = res,
                     !.v[15] = IF res > 4095 THEN 1 ELSE m.v[15]])

\* Fx1E
AddIndex(m, w) ==
    LET res == (m.i + m.v[x(w)]) % 65536
    IN  Ok([m EXCEPT !.i = res,
                     !.v[15] = IF res > 4095 \/ res < m.i THEN 1 ELSE m.v[15]])

\* Fx29 => self.i = 0x50 + 5 * instruction.x()
FontAddr(m, w) == Ok([m EXCEPT !.i = 80 + 5 * x(w)])

\* Fx33 with the tens not reduced modulo 10 (a mutant of Bcd)
BcdTensUnreduced(m, w) ==
    LET b == m.v[x(w)]
    IN  IF m.i + 2 >= MEM_SIZE THEN Panic(m)
        ELSE Ok([m EXCEPT !.memory =
                    MemSetAll(m.memory, m.i, <<b \div 100, b \div 10, b % 10>>)])

\* Fx33
Bcd(m, w) ==
    LET b == m.v[x(w)]
    IN  IF m.i + 2 >= MEM_SIZE THEN Panic(m)
        ELSE Ok([m EXCEPT !.memory =
                    MemSetAll(m.memory, m.i, <<b \div 100, (b \div 10) % 10, b % 10>>)])

\* Fx55 => for n in 0..x { memory[i + n] = v[n] }
StoreRegs(m, w) ==
    IF x(w) > 0 /\ m.i + x(w) - 1 >= MEM_SIZE THEN Panic(m)
    ELSE Ok([m EXCEPT !.memory =
                MemSetAll(m.memory, m.i, [k \in 1 .. x(w) |-> m.v[k - 1]])])

\* Fx65 => for n in 0..=x { v[n] = memory[i + n] }
LoadRegs(m, w) ==
    IF m.i + x(w) >= MEM_SIZE THEN Panic(m)
    ELSE Ok([m EXCEPT !.v =
                [k \in 0 .. 15 |->
                    IF k <= x(w) THEN MemGet(m.memory, m.i + k) ELSE m.v[k]]])

Misc(m, w) ==
    CASE nn(w) = 7 -> Ok(SetV(m, x(w), m.dt))
      [] nn(w) = 10 -> WaitKey(m, w)
      [] nn(w) = 21 -> Ok([m EXCEPT !.dt = m.v[x(w)]])
      [] nn(w) = 24 -> Ok([m EXCEPT !.st = m.v[x(w)]])
      [] nn(w) = 30 -> AddIndex(m, w)
      [] nn(w) = 41 -> FontAddr(m, w)
      [] nn(w) = 51 -> Bcd(m, w)
      [] nn(w) = 85 -> StoreRegs(m, w)
      [] nn(w) = 101 -> LoadRegs(m, w)
      [] OTHER -> Ok(m)   \* 0x30, 0x75, 0x85: nothing; else println!

\* The 0x0 family
System(m, w) ==
    CASE nnn(w) = 224 -> Ok([m EXCEPT !.display = Clear(m.display)])
      [] nnn(w) = 238 -> Return(m)
      [] nnn(w) \in 192 .. 207 ->
            Ok([m EXCEPT !.display = ScrollDown(m.display, n(w))])
      [] nnn(w) = 251 -> Ok([m EXCEPT !.display = ScrollRight(m.display)])
      [] nnn(w) = 252 -> Ok([m EXCEPT !.display = ScrollLeft(m.display)])
      [] OTHER -> Ok(m)   \* 0x0FF, 0x0FE and the rest: nothing

\* Chip8::decode; r is the byte rand::thread_rng() yields for Cxnn
Decode(m, w, r) ==
    CASE w \div 4096 = 0 -> System(m, w)
      [] w \div 4096 = 1 -> Ok([m EXCEPT !.pc = nnn(w)])
      [] w \div 4096 = 2 -> Call(m, w)
      [] w \div 4096 = 3 -> Skip(m, m.v[x(w)] = nn(w))
      [] w \div 4096 = 4 -> Skip(m, m.v[x(w)] # nn(w))
      [] w \div 4096 = 5 -> Skip(m, m.v[x(w)] = m.v[y(w)])
      [] w \div 4096 = 6 -> Ok(SetV(m, x(w), nn(w)))
      [] w \div 4096 = 7 -> AddLiteral(m, w)
      [] w \div 4096 = 8 -> Alu(m, w)
      [] w \div 4096 = 9 -> Skip(m, m.v[x(w)] # m.v[y(w)])
      [] w \div 4096 = 10 -> Ok([m EXCEPT !.i = nnn(w)])
      [] w \div 4096 = 11 -> Ok([m EXCEPT !.pc = nnn(w) + m.v[x(w)]])
      [] w \div 4096 = 12 -> Ok(SetV(m, x(w), BitAnd(r, nn(w))))
      [] w \div 4096 = 13 -> DrawSprite(m, w)
      [] w \div 4096 = 14 ->
            IF nn(w) = 158 THEN Skip(m, m.input = m.v[x(w)])
            ELSE IF nn(w) = 161 THEN Skip(m, m.input # m.v[x(w)])
            ELSE Ok(m)
      [] OTHER -> Misc(m, w)

\* The timer part of Chip8::tick
Timers(m) ==
    [m EXCEPT !.dt = IF m.dt > 0 THEN m.dt - 1 ELSE 0,
              !.st = IF m.st > 0 THEN m.st - 1 ELSE 0]

\* Chip8::tick up to its return, or up to the point where decode is about
\* to call tick again, or up to a panic.
TickBody(m, r) ==
    LET f == Fetch(m)
        d == Decode(f.m, f.instruction, r)
    IN  IF f.trap = "panic" THEN Panic(m)
        ELSE IF d.trap = "ok" THEN Ok(Timers(d.m))
        ELSE d

\* The returns of `frames` enclosing tick invocations, each back into the
\* Fx0A arm of decode and on to its timer part.
RECURSIVE Unwind(_, _)
Unwind(m, frames) == IF frames = 0 THEN m ELSE Unwind(Timers(m), frames - 1)

\* ---------------------------------------------------------------- get_input
\* The match of Chip8::get_input on a KeyDown of the named key: its code, or
\* None for a key (or any other event) the match sends to its last arm.
KeyCode(e) ==
    CASE e = "Num1" -> 1   [] e = "Num2" -> 2   [] e = "Num3" -> 3
      [] e = "Num4" -> 12  [] e = "Q" -> 4      [] e = "W" -> 5
      [] e = "E" -> 6      [] e = "R" -> 13     [] e = "A" -> 7
      [] e = "S" -> 8      [] e = "D" -> 9      [] e = "F" -> 14
      [] e = "Z" -> 10     [] e = "X" -> 0      [] e = "C" -> 11
      [] e = "V" -> 15     [] OTHER -> None

\* Event::Quit and KeyDown of Escape end the process.
IsQuit(e) == e \in {"Quit", "Escape"}

\* ------------------------------------------------------------------ inputs
\* The events the keyboard produces in a run.
KeyEvents == {"X", "V", "Tab", "Escape"}

\* The bytes the random generator yields.
RandBytes == {0, 165, 255}

\* A ROM file as the big-endian bytes of 16-bit words
RECURSIVE Words(_)
Words(ws) ==
    IF ws = << >> THEN << >>
    ELSE <<Head(ws) \div 256, Head(ws) % 256>> \o Words(Tail(ws))

\* ROM files for the main loop with a live keyboard.  Each comes with the
\* number of ticks it is run for.
\* V0 = t; st = V0; dt = V0; Vx = key.
KeyWaitRoms ==
    {[rom |-> Words(<<24576 + t, 61464, 61461, 61450 + 256 * rx>>), run |-> 4]
        : t \in {0, 1, 3}, rx \in {1, 15}}

LoopRoms == KeyWaitRoms

\* ROM files for the main loop with a silent keyboard.
\* A call to `a`, then three of: return, call 0x204, call 0x206.
CallRoms ==
    {[rom |-> Words(<<8192 + a, w1, w2, w3>>), run |-> 4]
        : a \in {512, 514, 516, 518}, w1 \in {238, 8708, 8710},
          w2 \in {238, 8708, 8710}, w3 \in {238, 8708, 8710}}

\* I = g; draw 5 rows of it at (V0, V0) = (0, 0); scroll down by k.
ScrollRoms ==
    {[rom |-> Words(<<40960 + g, 53253, 192 + k>>), run |-> 3]
        : g \in {80, 85}, k \in 0 .. 15}

\* V0 = cx; V1 = cy; I = 0x50; draw n1 rows at (V0, V1); I = g2; draw k rows
\* at (V0, V1), twice.
DrawRoms ==
    {[rom |-> Words(<<24576 + cx, 24832 + cy, 41040, 53264 + n1,
                      40960 + g2, 53264 + k, 53264 + k>>), run |-> 7]
        : cx \in {0, 57, 63, 70}, cy \in {0, 30, 31}, n1 \in {0, 5},
          g2 \in {0, 80, 85}, k \in {1, 5, 15}}

\* V0 = a; V1 = b; I = addr; store V0..; Vk = d; load V0..
StoreRoms ==
    {[rom |-> Words(<<24576 + a, 24832 + b, 40960 + addr, 61525 + 256 * rx,
                      24576 + 256 * k + d, 61541 + 256 * rx>>), run |-> 6]
        : a \in {0, 17}, b \in {34}, addr \in {768, 4080}, rx \in {0, 1, 2, 15},
          k \in {0, 1}, d \in {0, 68}}

\* Vx = val; I = font address for Vx.
FontRoms ==
    {[rom |-> Words(<<24576 + 256 * rx + val, 61481 + 256 * rx>>), run |-> 2]
        : rx \in {0, 1, 5, 15}, val \in {0, 1, 5, 10, 15}}

\* The register values of the arithmetic ROM files
ByteVals == {0, 1, 2, 3, 5, 127, 128, 200, 254, 255}

\* Vx = a; Vy = b; 8xy4, 8xy5 or 8xy7.
AluRoms ==
    {[rom |-> Words(<<24576 + 256 * rx + a, 24576 + 256 * ry + b,
                      32768 + 256 * rx + 16 * ry + f>>), run |-> 3]
        : rx \in {0, 1, 15}, ry \in {0, 1, 15}, a \in ByteVals, b \in ByteVals,
          f \in {4, 5, 7}}

\* The register values of the BCD ROM files
BcdVals == ByteVals \cup {9, 10, 99, 100, 109, 156, 199}

\* Vx = val; I = addr; Fx33.  The addresses: free memory, the font, the ROM
\* file itself, the last three cells, and one cell too far.
BcdRoms ==
    {[rom |-> Words(<<24576 + 256 * rx + val, 40960 + addr, 61491 + 256 * rx>>),
      run |-> 3]
        : rx \in {0, 15}, val \in BcdVals, addr \in {768, 80, 514, 4093, 4094}}

\* call 0x202; I = 0x123; VF = f; Vx = a; 7xnn.
AddLiteralRoms ==
    {[rom |-> Words(<<8706, 41251, 28416 + f, 24576 + 256 * rx + a,
                      28672 + 256 * rx + b>>), run |-> 5]
        : f \in {0, 7}, rx \in {0, 1, 15}, a \in {0, 1, 128, 255},
          b \in {0, 1, 128, 255}}

\* V0 = cx; V1 = cy; I = 0x50; draw k rows at (V0, V1); 00E0.
ClearRoms ==
    {[rom |-> Words(<<24576 + cx, 24832 + cy, 41040, 53264 + k, 224>>), run |-> 5]
        : cx \in {0, 60}, cy \in {0, 30}, k \in {0, 5, 15}}

\* Two of 00FF and 00FE.
ModeRoms ==
    {[rom |-> Words(<<w1, w2>>), run |-> 2] : w1 \in {254, 255}, w2 \in {254, 255}}

\* The words no arm of decode names: they reach the last arm of the match of
\* their family.
Unknown(w) ==
    \/ /\ w \div 4096 = 0
       /\ nnn(w) \notin {224, 238, 255, 254, 251, 252} \cup (192 .. 207)
    \/ /\ w \div 4096 = 8
       /\ n(w) \notin {0, 1, 2, 3, 4, 5, 6, 7, 14}
    \/ /\ w \div 4096 = 14
       /\ nn(w) \notin {158, 161}
    \/ /\ w \div 4096 = 15
       /\ nn(w) \notin {7, 10, 21, 24, 30, 41, 48, 51, 85, 101, 117, 133}

\* The words of the ROM files below: 0nnn for nnn up to 0x0FF and a few
\* above, 8xyn, Exnn and Fxnn with registers 0, 1 and F.
UnknownWords ==
    {w \in (0 .. 255) \cup {256, 512, 2748, 4095}
           \cup {32768 + 256 * rx + 16 * ry + f
                    : rx \in {0, 1, 15}, ry \in {0, 1, 15}, f \in 0 .. 15}
           \cup {57344 + 256 * rx + b : rx \in {0, 15}, b \in 0 .. 255}
           \cup {61440 + 256 * rx + b : rx \in {0, 15}, b \in 0 .. 255}
        : Unknown(w)}

\* call 0x202; I = 0x50; draw 5 rows at (0, 0); VF = 7; st = VF; then a word
\* no arm of decode names.
UnknownRoms ==
    {[rom |-> Words(<<8706, 41040, 53253, 28423, 65304, w>>), run |-> 6]
        : w \in UnknownWords}

\* I = addr; Vx = val; I += Vx.
AddIndexRoms ==
    {[rom |-> Words(<<40960 + addr, 24576 + 256 * rx + val, 61470 + 256 * rx>>),
      run |-> 3]
        : addr \in {0, 3840, 4080, 4094, 4095}, val \in {0, 1, 15, 16, 255},
          rx \in {0, 15}}

\* V0 = 0xFF; I = 0xFFF; then I += V0; VF = 0; jump 0x204, for as long as
\* it takes I to pass 0xFFFF: the 241st addition wraps.
WrapRoms ==
    {[rom |-> Words(<<24831, 45055, 61470, 28416, 4612>>), run |-> 2 + 3 * 240 + 1]}

\* Vx = a; 8xy6 or 8xyE.
ShiftRoms ==
    {[rom |-> Words(<<24576 + 256 * rx + a, 32768 + 256 * rx + 16 * ry + f>>),
      run |-> 2]
        : rx \in {0, 1, 15}, ry \in {0, 1}, a \in ByteVals, f \in {6, 14}}

\* VF = val; V1 = 0x21; I = 0x50; draw 5 rows at (Vx, Vy), F among x and y.
DrawFlagRoms ==
    {[rom |-> Words(<<28416 + val, 24865, 41040, 53253 + 256 * rx + 16 * ry>>),
      run |-> 4]
        : val \in {5, 33}, rx \in {1, 15}, ry \in {1, 15}}

OpRoms == CallRoms \cup ScrollRoms \cup DrawRoms \cup StoreRoms \cup FontRoms
          \cup AluRoms \cup BcdRoms \cup AddLiteralRoms \cup ClearRoms
          \cup ModeRoms \cup UnknownRoms \cup AddIndexRoms \cup WrapRoms
          \cup ShiftRoms \cup DrawFlagRoms

\* Ticks a run goes on after those its ROM file asks for.
ExtraTicks == 0

\* -------------------------------------------------------------- the process
Ctl == {"tick", "keywait", "render", "input", "overflow", "panic", "exit"}

Running == ctl \in {"tick", "keywait", "render", "input"}

Install(m) ==
    /\ hi_mode' = m.display.hi_mode
    /\ lo_res' = m.display.lo_res
    /\ hi_res' = m.display.hi_res
    /\ input' = m.input
    /\ memory' = m.memory
    /\ pc' = m.pc
    /\ i' = m.i
    /\ stack' = m.stack
    /\ v' = m.v
    /\ dt' = m.dt
    /\ st' = m.st

Push(e) ==
    LET s == <<e>> \o hist
    IN  IF Len(s) > HistLen THEN SubSeq(s, 1, HistLen) ELSE s

CtlAfter(trap) ==
    CASE trap = "ok" -> "render"
      [] trap = "keywait" -> "keywait"
      [] OTHER -> "panic"

\* Chip8::new(file) and Default::default() for the rest, at the top of the
\* loop of main.
Boot(file, keys) ==
    /\ hi_mode = FALSE
    /\ lo_res = BlankLo
    /\ hi_res = BlankHi
    /\ input = None
    /\ memory = Load(file.rom)
    /\ pc = ROM_BASE
    /\ i = 0
    /\ stack = << >>
    /\ v = [k \in 0 .. 15 |-> 0]
    /\ dt = 0
    /\ st = 0
    /\ ctl = "tick"
    /\ depth = 0
    /\ events = keys
    /\ ticks = file.run + ExtraTicks
    /\ hist = << >>

\* Display::default() of display.rs in a build of profile bld, no operation
\* called on it yet
DisplayNew(bld) ==
    /\ disp = Display_default
    /\ build = bld
    /\ calls = << >>
    /\ shown = BlankLo
    /\ drawn = [d |-> Display_default, x |-> 0, y |-> 0, sprite |-> << >>,
                res |-> FALSE]

\* main.rs declares no module display: its process has no Display of
\* display.rs to act on.
Init == (\E file \in LoopRoms : Boot(file, << >>)) /\ DisplayNew("release")

OpInit == (\E file \in OpRoms : Boot(file, << >>)) /\ DisplayNew("release")

\* main: chip_8.tick(), up to its return, a panic, or the point where the
\* Fx0A arm is about to call tick again
Tick ==
    /\ ctl = "tick"
    /\ ticks > 0
    /\ \E r \in RandBytes :
          LET f == Fetch(Machine)
              t == TickBody(Machine, r)
          IN  /\ Install(t.m)
              /\ ctl' = CtlAfter(t.trap)
              /\ depth' = IF t.trap = "keywait" THEN 1 ELSE 0
              /\ hist' = Push([m |-> Machine,
                               op |-> IF f.trap = "ok" THEN f.instruction ELSE None])
    /\ ticks' = ticks - 1
    /\ UNCHANGED events
    /\ UNCHANGED dvars

\* The Fx0A arm's self.tick(): one more invocation on the thread's stack.
\* When it waits again the process is one frame deeper; when it returns, so
\* do all the invocations around it, each through its timer part.
NestedTick ==
    /\ ctl = "keywait"
    /\ depth < MaxDepth
    /\ \E r \in RandBytes :
          LET t == TickBody(Machine, r)
          IN  /\ Install(IF t.trap = "ok" THEN Unwind(t.m, depth) ELSE t.m)
              /\ ctl' = CtlAfter(t.trap)
              /\ depth' = IF t.trap = "keywait" THEN depth + 1 ELSE 0
    /\ UNCHANGED <<events, ticks, hist>>
    /\ UNCHANGED dvars

\* No room for one more invocation: the process is aborted.
StackOverflow ==
    /\ ctl = "keywait"
    /\ depth = MaxDepth
    /\ ctl' = "overflow"
    /\ UNCHANGED <<hi_mode, lo_res, hi_res, input, memory, pc, i, stack, v, dt, st,
                   depth, events, ticks, hist>>
    /\ UNCHANGED dvars

\* main: chip_8.render(..): the Display of main.rs is only read
Render ==
    /\ ctl = "render"
    /\ ctl' = "input"
    /\ UNCHANGED <<hi_mode, lo_res, hi_res, input, memory, pc, i, stack, v, dt, st,
                   depth, events, ticks, hist>>
    /\ UNCHANGED dvars

\* main: chip_8.get_input(..)
GetInput ==
    /\ ctl = "input"
    /\ IF events = << >>
       THEN input' = None /\ ctl' = "tick" /\ events' = events
       ELSE /\ events' = Tail(events)
            /\ IF IsQuit(Head(events))
               THEN input' = input /\ ctl' = "exit"
               ELSE input' = KeyCode(Head(events)) /\ ctl' = "tick"
    /\ UNCHANGED <<hi_mode, lo_res, hi_res, memory, pc, i, stack, v, dt, st,
                   depth, ticks, hist>>
    /\ UNCHANGED dvars

\* The keyboard: an event joins the pump's queue.
KeyEvent ==
    /\ Running
    /\ Len(events) < MaxEvents
    /\ \E e \in KeyEvents : events' = Append(events, e)
    /\ UNCHANGED <<hi_mode, lo_res, hi_res, input, memory, pc, i, stack, v, dt, st,
                   ctl, depth, ticks, hist>>
    /\ UNCHANGED dvars

\* The steps of the process itself
Step == Tick \/ NestedTick \/ StackOverflow \/ Render \/ GetInput

Next == Step \/ KeyEvent

Spec == Init /\ [][Next]_vars

\* The process is sequential and always takes its next step.
FairSpec == Spec /\ WF_vars(Step)

\* The main loop with a silent keyboard
OpNext == Tick \/ Render \/ GetInput

OpSpec == OpInit /\ [][OpNext]_vars

\* ------------------------------------------- a caller of display.rs's Display
\* The arguments the caller passes
DrawCols == {0, 60}
DrawRowsAt == {0, 31}
Sprites == {<<255>>, <<129, 255>>}
ScrollCounts == {1, 15}

\* The operation called last, "new" before the first call
LastCall == IF calls = << >> THEN "new" ELSE Last(calls)

\* The caller can make one more call: it has not made MaxCalls, and no call
\* has panicked.
CanCall == Len(calls) < MaxCalls /\ LastCall # "panic"

CallDraw ==
    /\ CanCall
    /\ \E col \in DrawCols, row \in DrawRowsAt, sprite \in Sprites :
          LET out == Display_draw(disp, col, row, sprite, build)
          IN  /\ disp' = out.d
              /\ calls' = Append(calls, IF out.trap = "ok" THEN "draw" ELSE "panic")
              /\ drawn' = [d |-> disp, x |-> col, y |-> row, sprite |-> sprite,
                           res |-> out.res]
    /\ UNCHANGED <<build, shown>>
    /\ UNCHANGED cvars

CallClear ==
    /\ CanCall
    /\ disp' = Display_clear(disp)
    /\ calls' = Append(calls, "clear")
    /\ UNCHANGED <<build, shown, drawn>>
    /\ UNCHANGED cvars

CallScrollDown ==
    /\ CanCall
    /\ \E rows \in ScrollCounts : disp' = Display_scroll_down(disp, rows)
    /\ calls' = Append(calls, "scroll_down")
    /\ UNCHANGED <<build, shown, drawn>>
    /\ UNCHANGED cvars

CallScrollRight ==
    /\ CanCall
    /\ disp' = Display_scroll_right(disp)
    /\ calls' = Append(calls, "scroll_right")
    /\ UNCHANGED <<build, shown, drawn>>
    /\ UNCHANGED cvars

CallScrollLeft ==
    /\ CanCall
    /\ disp' = Display_scroll_left(disp)
    /\ calls' = Append(calls, "scroll_left")
    /\ UNCHANGED <<build, shown, drawn>>
    /\ UNCHANGED cvars

CallRender ==
    /\ CanCall
    /\ disp' = Display_render(disp)
    /\ shown' = ActiveRows(disp)
    /\ calls' = Append(calls, "render")
    /\ UNCHANGED <<build, drawn>>
    /\ UNCHANGED cvars

\* A Chip8 made of an empty file, for the variables the caller leaves alone
NoRom == [rom |-> << >>, run |-> 0]

DisplayInit == Boot(NoRom, << >>) /\ \E bld \in Builds : DisplayNew(bld)

DisplayNext ==
    \/ CallDraw \/ CallClear \/ CallScrollDown \/ CallScrollRight
    \/ CallScrollLeft \/ CallRender

DisplaySpec == DisplayInit /\ [][DisplayNext]_vars

\* ------------------------------------------------------ reading the history
\* main has started a tick
Started == hist # << >>

\* The opcode the last tick started fetched (None: the fetch panicked), the
\* machine before that tick, and the machine before the tick before it
LastOp == hist[1].op
Before == hist[1].m

\* The last tick started has returned to main
Returned == Started /\ ctl \in {"tick", "render", "input", "exit"}

\* The last tick started has returned or was cut short by the abort of a
\* stack overflow
Ended == Returned \/ (Started /\ ctl = "overflow")

IsOp(w, family) == w # None /\ w \div 4096 = family
IsWaitKey(w) == IsOp(w, 15) /\ nn(w) = 10

\* The machine once the instruction of the last tick started has executed,
\* before the timer part of that tick
Executed == Decode(Fetch(Before).m, LastOp, 0).m

\* ------------------------------------------------------------------- C1
\* C1: a tick that finds Fx0A at address A with no key in the key slot ends
\* with pc = A and Vx unchanged (the process goes on to the next tick); a
\* tick that finds a key k in the slot ends with Vx = k and pc = A + 2.
C1_KeyWaitBlocking ==
    (Started /\ IsWaitKey(LastOp)) =>
        IF Before.input = None
        THEN /\ ctl # "overflow"
             /\ Returned => (pc = Before.pc /\ v[x(LastOp)] = Before.v[x(LastOp)])
        ELSE Returned =>
                /\ v[x(LastOp)] = Before.input
                /\ pc = Before.pc + 2

\* ------------------------------------------------------------------- C2
WaitingWithKeyPending ==
    /\ ctl = "keywait"
    /\ input = None
    /\ events # << >>
    /\ KeyCode(Head(events)) # None

KeyDelivered ==
    /\ Returned
    /\ IsWaitKey(LastOp)
    /\ v[x(LastOp)] \in 0 .. 15
    /\ pc = Before.pc + 2

\* C2: when the machine waits on Fx0A with no key in the slot and the
\* keyboard has produced a key event, get_input eventually runs and the wait
\* ends with Vx set to a key and pc past the Fx0A instruction.
C2_KeyWaitLiveness == WaitingWithKeyPending ~> KeyDelivered

\* ------------------------------------------------------------------- C3
TimerAfter(t) == IF t > 0 THEN t - 1 ELSE 0

\* C3: a tick main invokes, whatever instruction it executes (Fx0A waiting
\* with no key included), leaves each timer one below its value after the
\* instruction, or at 0; a timer is never negative.
C3_TimerDecrement ==
    /\ dt >= 0 /\ st >= 0
    /\ (Ended /\ LastOp # None) =>
          /\ dt = TimerAfter(Executed.dt)
          /\ st = TimerAfter(Executed.st)

\* ------------------------------------------------------------------- C4
\* The last two ticks started, the earlier one first, have both returned
Returned2 == Returned /\ Len(hist) >= 2
Op2 == hist[2].op
Before2 == hist[2].m

\* C4: after a call 2nnn at address P with stack S, pc = nnn and the stack
\* is S with P + 2 on top; after a return 00EE executed right after that
\* call, pc = P + 2 and the stack is S again.
C4_CallReturn ==
    /\ (Returned /\ IsOp(LastOp, 2)) =>
          /\ pc = nnn(LastOp)
          /\ stack = Before.stack \o <<Before.pc + 2>>
    /\ (Returned2 /\ IsOp(Op2, 2) /\ LastOp = 238) =>
          /\ pc = Before2.pc + 2
          /\ stack = Before2.stack

\* a call on a nonempty stack, not the first instruction, and the return
\* right after it
C4_Witness ==
    /\ Returned2 /\ IsOp(Op2, 2) /\ LastOp = 238
    /\ Before2.stack # << >>
    /\ Before2.pc # ROM_BASE

\* ------------------------------------------------------------------- C5
IsScrollDown(w) == IsOp(w, 0) /\ nnn(w) \in 192 .. 207

Screen == [hi_mode |-> hi_mode, lo_res |-> lo_res, hi_res |-> hi_res]

\* C5: after 00Cn, row k of the active buffer is its row k - n of before
\* for every k >= n, and rows 0 .. n - 1 of the active buffer are zero.
C5_ScrollDown ==
    (Returned /\ IsScrollDown(LastOp)) =>
        \A k \in 0 .. ActiveHeight(Screen) - 1 :
            ActiveRows(Screen)[k] =
                IF k < n(LastOp) THEN {}
                ELSE ActiveRows(Before.display)[k - n(LastOp)]

\* ------------------------------------------------------------------- C6
\* The last two ticks drew the same sprite at the same origin
DrewTwice ==
    /\ Returned2
    /\ IsOp(LastOp, 13) /\ Op2 = LastOp
    /\ Before2.i = Before.i
    /\ SpriteBytes(Before2, n(Op2)) = SpriteBytes(Before, n(LastOp))
    /\ SetV(Before2, 15, 0).v = SetV(Before, 15, 0).v

\* The first of the two draws turned a pixel on
FirstDrawSetPixel ==
    \E r \in 0 .. LO_ROWS - 1 :
        Before.display.lo_res[r] \ Before2.display.lo_res[r] # {}

\* C6: drawing the same sprite twice at the same origin restores every row
\* of the framebuffer, and the second draw reports a collision whenever the
\* first draw set a pixel.
C6_DrawTwice ==
    DrewTwice =>
        /\ Screen = Before2.display
        /\ FirstDrawSetPixel => v[15] = 1

\* drawn twice over a framebuffer that was not blank, partly off the
\* right edge and the bottom, the first draw setting a pixel
C6_Witness ==
    /\ DrewTwice /\ FirstDrawSetPixel
    /\ Before2.display.lo_res # BlankLo
    /\ Before.v[0] > 56 /\ Before.v[1] > 28

\* ------------------------------------------------------------------- C7
IsStore(w) == IsOp(w, 15) /\ nn(w) = 85
IsLoad(w) == IsOp(w, 15) /\ nn(w) = 101

\* C7: after Fx55 with I + x <= 4095, memory[I + k] = Vk for every k in
\* 0 .. x, every other cell, the registers and I are unchanged; Fx55, a
\* register load and Fx65 with the same x leave V0..Vx as before the store.
C7_BlockStore ==
    /\ (Returned /\ IsStore(LastOp) /\ Before.i + x(LastOp) <= 4095) =>
          /\ \A k \in 0 .. x(LastOp) : MemGet(memory, Before.i + k) = Before.v[k]
          /\ \A a \in (DOMAIN memory \cup DOMAIN Before.memory)
                        \ (Before.i .. Before.i + x(LastOp)) :
                MemGet(memory, a) = MemGet(Before.memory, a)
          /\ v = Before.v
          /\ i = Before.i
    /\ (/\ Returned2 /\ Len(hist) >= 3
        /\ IsStore(hist[3].op) /\ IsOp(Op2, 6) /\ IsLoad(LastOp)
        /\ x(hist[3].op) = x(LastOp)
        /\ hist[3].m.i + x(LastOp) <= 4095) =>
          \A k \in 0 .. x(LastOp) : v[k] = hist[3].m.v[k]

\* ------------------------------------------------------------------- C8
IsFontAddr(w) == IsOp(w, 15) /\ nn(w) = 41

\* C8: after Fx29 with Vx in 0 .. 15, I = 0x050 + 5 * Vx, and the five
\* cells from I on hold the glyph of the digit Vx.
C8_FontAddress ==
    (Returned /\ IsFontAddr(LastOp) /\ Before.v[x(LastOp)] \in 0 .. 15) =>
        /\ i = 80 + 5 * Before.v[x(LastOp)]
        /\ \A k \in 0 .. 4 :
              MemGet(memory, i + k) = FONT[5 * Before.v[x(LastOp)] + k + 1]

\* ------------------------------------------------------------------- C9
IsAlu(w, f) == IsOp(w, 8) /\ n(w) = f

\* The residue of a modulo 256, for a in -255 .. 511
Mod256(a) == CHOOSE r \in 0 .. 255 : \E q \in -1 .. 1 : a = 256 * q + r

\* C9: for x # F, 8xy5 leaves Vx = (Vx - Vy) mod 256 and VF = 1 iff
\* Vx >= Vy; 8xy7 leaves Vx = (Vy - Vx) mod 256 and VF = 1 iff Vy >= Vx.
\* 5 - 3 gives 2 and VF = 1; 3 - 5 gives 0xFE and VF = 0.
C9_BorrowFlag ==
    LET a == Before.v[x(LastOp)]
        b == Before.v[y(LastOp)]
    IN  /\ (Returned /\ IsAlu(LastOp, 5) /\ x(LastOp) # 15) =>
              /\ v[x(LastOp)] = Mod256(a - b)
              /\ v[15] = IF a >= b THEN 1 ELSE 0
              /\ (a = 5 /\ b = 3) => (v[x(LastOp)] = 2 /\ v[15] = 1)
              /\ (a = 3 /\ b = 5) => (v[x(LastOp)] = 254 /\ v[15] = 0)
        /\ (Returned /\ IsAlu(LastOp, 7) /\ x(LastOp) # 15) =>
              /\ v[x(LastOp)] = Mod256(b - a)
              /\ v[15] = IF b >= a THEN 1 ELSE 0

\* 3 - 5: a subtraction with a borrow
C9_Witness ==
    /\ Returned /\ IsAlu(LastOp, 5) /\ x(LastOp) # 15
    /\ Before.v[x(LastOp)] = 3 /\ Before.v[y(LastOp)] = 5
    /\ v[x(LastOp)] = 254 /\ v[15] = 0

\* ------------------------------------------------------------------- C10
\* C10: 8xy4 leaves VF = 1 iff Vx + Vy > 255, for every x; for x # F it
\* leaves Vx = (Vx + Vy) mod 256.  0xFF + 1 gives 0 and VF = 1; 1 + 1 gives
\* 2 and VF = 0.
C10_CarryAdd ==
    LET a == Before.v[x(LastOp)]
        b == Before.v[y(LastOp)]
    IN  (Returned /\ IsAlu(LastOp, 4)) =>
            /\ v[15] = IF a + b > 255 THEN 1 ELSE 0
            /\ x(LastOp) # 15 =>
                  /\ v[x(LastOp)] = Mod256(a + b)
                  /\ (a = 255 /\ b = 1) => (v[x(LastOp)] = 0 /\ v[15] = 1)
                  /\ (a = 1 /\ b = 1) => (v[x(LastOp)] = 2 /\ v[15] = 0)

\* x = F with a sum whose low byte is not its carry bit
C10_Witness ==
    /\ Returned /\ IsAlu(LastOp, 4) /\ x(LastOp) = 15
    /\ Before.v[15] + Before.v[y(LastOp)] > 256
    /\ v[15] = 1

\* ------------------------------------------------------------------- C11
IsBcd(w) == IsOp(w, 15) /\ nn(w) = 51

\* C11: after Fx33 with I + 2 <= 4095, memory[I], memory[I + 1] and
\* memory[I + 2] are Vx div 100, (Vx div 10) mod 10 and Vx mod 10: three
\* digits in 0 .. 9 whose decimal value is Vx; no other cell, no register
\* and not I changes.
C11_Bcd ==
    LET b == Before.v[x(LastOp)]
        d(k) == MemGet(memory, Before.i + k)
    IN  (Returned /\ IsBcd(LastOp) /\ Before.i + 2 <= 4095) =>
            /\ d(0) = b \div 100
            /\ d(1) = (b \div 10) % 10
            /\ d(2) = b % 10
            /\ \A k \in 0 .. 2 : d(k) \in 0 .. 9
            /\ 100 * d(0) + 10 * d(1) + d(2) = b
            /\ \A a \in (DOMAIN memory \cup DOMAIN Before.memory)
                          \ (Before.i .. Before.i + 2) :
                  MemGet(memory, a) = MemGet(Before.memory, a)
            /\ v = Before.v
            /\ i = Before.i

\* 156 decomposed into 1, 5, 6 over cells that held other bytes
C11_Witness ==
    /\ Returned /\ IsBcd(LastOp)
    /\ Before.v[x(LastOp)] = 156
    /\ \A k \in 0 .. 2 : MemGet(Before.memory, Before.i + k) > 9
    /\ MemGet(memory, i) = 1 /\ MemGet(memory, i + 1) = 5
    /\ MemGet(memory, i + 2) = 6

\* ------------------------------------------------------------------- C12
\* C12: 7xnn leaves Vx = (Vx + nn) mod 256 and every other register as it
\* was (VF too when x # F), and I, memory and the stack as they were.
C12_AddLiteral ==
    (Returned /\ IsOp(LastOp, 7)) =>
        /\ v[x(LastOp)] = Mod256(Before.v[x(LastOp)] + nn(LastOp))
        /\ \A k \in 0 .. 15 : k # x(LastOp) => v[k] = Before.v[k]
        /\ i = Before.i
        /\ memory = Before.memory
        /\ stack = Before.stack

\* 0xFF + 1 wraps to 0 and VF = 7 stays, with I and the stack in use
C12_Witness ==
    /\ Returned /\ IsOp(LastOp, 7) /\ x(LastOp) # 15
    /\ Before.v[x(LastOp)] = 255 /\ nn(LastOp) = 1
    /\ v[x(LastOp)] = 0 /\ v[15] = 7
    /\ i # 0 /\ stack # << >>

\* ------------------------------------------------------------------- C13
\* C13: after 00E0 every row of the active resolution buffer is zero.
C13_Clear ==
    (Returned /\ LastOp = 224) =>
        \A r \in 0 .. ActiveHeight(Screen) - 1 : ActiveRows(Screen)[r] = {}

\* a clear of a framebuffer with pixels set
C13_Witness ==
    /\ Returned /\ LastOp = 224
    /\ \E r \in 0 .. ActiveHeight(Before.display) - 1 :
          ActiveRows(Before.display)[r] # {}
    /\ lo_res = BlankLo

\* ------------------------------------------------------------------- C15
\* C15: after 00FF the framebuffer is in extended (128x64) mode, after
\* 00FE in standard (64x32) mode.
C15_ModeToggle ==
    /\ (Returned /\ LastOp = 255) => hi_mode = TRUE
    /\ (Returned /\ LastOp = 254) => hi_mode = FALSE

\* ------------------------------------------------------------------- C16
\* C16: a tick that fetches a word no arm of decode names ends without a
\* panic, with pc two past the word, and with the registers, I, memory, the
\* stack and the framebuffer as they were; the timers take their decrement.
C16_UnknownOpcode ==
    (Started /\ LastOp # None /\ Unknown(LastOp)) =>
        /\ Returned
        /\ pc = Before.pc + 2
        /\ v = Before.v
        /\ i = Before.i
        /\ memory = Before.memory
        /\ stack = Before.stack
        /\ Screen = Before.display
        /\ dt = TimerAfter(Before.dt)
        /\ st = TimerAfter(Before.st)

\* an unnamed word of the 0x8 family met with registers, I, the stack, the
\* framebuffer and a timer all in use
C16_Witness ==
    /\ Returned /\ IsOp(LastOp, 8) /\ Unknown(LastOp)
    /\ v[15] = 7 /\ i = 80 /\ stack # << >> /\ lo_res # BlankLo
    /\ Before.st > 0 /\ st = Before.st - 1

\* ------------------------------------------------------------------- C17
\* C17: 00EE on an empty stack ends the process, never a tick that goes on
\* with some pc; every other 00EE leaves pc = the top of the stack (the
\* address pushed last and not yet popped) and pops it.
C17_StackUnderflow ==
    (Started /\ LastOp = 238) =>
        IF Before.stack = << >>
        THEN ctl = "panic"
        ELSE /\ Returned
             /\ pc = Last(Before.stack)
             /\ stack = Front(Before.stack)

\* a return that pops the last address, then a return on the empty stack
C17_Witness ==
    /\ Len(hist) >= 2
    /\ LastOp = 238 /\ Before.stack = << >> /\ ctl = "panic"
    /\ Op2 = 238 /\ Before2.stack # << >>

\* ------------------------------------------------------------------- C18
\* C18: the tick routine is never entered from inside itself: at most one
\* invocation of tick is active in every reachable state.
C18_NoReentry == depth <= 1

\* ------------------------------------------------------------------- C19
IsAddIndex(w) == IsOp(w, 15) /\ nn(w) = 30

\* The 16-bit sum of Fx1E in the last tick started
IndexSum == (Before.i + Before.v[x(LastOp)]) % 65536

\* C19: Fx1E leaves I = I + Vx (16-bit wrapping), and VF = 1 if that sum
\* is at or past 0xFFF or has wrapped.
C19_AddIndex ==
    (Returned /\ IsAddIndex(LastOp)) =>
        /\ i = IndexSum
        /\ (IndexSum >= 4095 \/ IndexSum < Before.i) => v[15] = 1

\* C19 as amended: Fx1E leaves I = I + Vx (16-bit wrapping), and VF = 1 if
\* that sum is past 0xFFF (greater than 0xFFF) or has wrapped.
C19_AddIndexPast ==
    (Returned /\ IsAddIndex(LastOp)) =>
        /\ i = IndexSum
        /\ (IndexSum > 4095 \/ IndexSum < Before.i) => v[15] = 1

\* the addition that wraps I past 0xFFFF, VF going from 0 to 1
C19_Witness ==
    /\ Returned /\ IsAddIndex(LastOp)
    /\ Before.i + Before.v[x(LastOp)] > 65535
    /\ i < Before.i
    /\ Before.v[15] = 0 /\ v[15] = 1

\* ------------------------------------------------------------------- C20
\* C20: for every x, F included, 8xy6 leaves VF = bit 0 of Vx and 8xyE
\* leaves VF = bit 7 of Vx, so VF is 0 or 1; for x # F, 8xy6 leaves
\* Vx = Vx >> 1 and 8xyE leaves Vx = (Vx << 1) mod 256.
C20_ShiftFlags ==
    LET a == Before.v[x(LastOp)]
    IN  /\ (Returned /\ IsAlu(LastOp, 6)) =>
              /\ v[15] = a % 2
              /\ v[15] \in {0, 1}
              /\ x(LastOp) # 15 => v[x(LastOp)] = a \div 2
        /\ (Returned /\ IsAlu(LastOp, 14)) =>
              /\ v[15] = (a \div 128) % 2
              /\ v[15] \in {0, 1}
              /\ x(LastOp) # 15 => v[x(LastOp)] = Mod256(2 * a)

\* ------------------------------------------------------------------- C14
\* The operations of display.rs's Display that change rows
Mutations == {"draw", "clear", "scroll_down", "scroll_left", "scroll_right"}

\* C14: draw, clear, scroll_down, scroll_left and scroll_right each leave
\* changed = true (only render sets it back to false); hence whenever the
\* rows differ from those the last render read, changed() is true.
C14_DirtyFlag ==
    /\ LastCall \in Mutations => Display_changed(disp) = TRUE
    /\ ActiveRows(disp) # shown => Display_changed(disp) = TRUE

\* ------------------------------------------------------------------- C21
\* The pixel of row r and column c of a display, column 0 the most
\* significant bit of the row's word
Pixel(d, r, c) ==
    IF d.hi_mode THEN (127 - c) \in d.hi_res[r] ELSE (63 - c) \in d.lo_res[r]

ActiveWidth(d) == IF d.hi_mode THEN 128 ELSE 64

\* C21: Dxyn clears VF, takes Vx mod 64 and Vy mod 32 as the origin and
\* memory[I .. I + n - 1] as the sprite, most significant bit leftmost.
\* After it a pixel has flipped exactly when a set sprite bit lies on it,
\* sprite rows at or past the active row count touching no row; VF is 1 if
\* a set sprite bit lay on a pixel that was set and 0 otherwise; memory, I
\* and the registers other than VF are unchanged.
C21_DrawOpcode ==
    LET d0 == Before.display
        v0 == SetV(Before, 15, 0).v
        col == v0[x(LastOp)] % 64
        row == v0[y(LastOp)] % 32
        OnSprite(r, c) ==
            /\ r - row \in 0 .. n(LastOp) - 1
            /\ c - col \in 0 .. 7
            /\ Bit(MemGet(Before.memory, Before.i + (r - row)), 7 - (c - col)) = 1
        Rows == 0 .. ActiveHeight(d0) - 1
        Cols == 0 .. ActiveWidth(d0) - 1
    IN  (Returned /\ IsOp(LastOp, 13)) =>
            /\ hi_mode = d0.hi_mode
            /\ \A r \in Rows, c \in Cols :
                  Pixel(Screen, r, c) = (Pixel(d0, r, c) # OnSprite(r, c))
            /\ v[15] = IF \E r \in Rows, c \in Cols : OnSprite(r, c) /\ Pixel(d0, r, c)
                        THEN 1 ELSE 0
            /\ \A k \in 0 .. 14 : v[k] = Before.v[k]
            /\ memory = Before.memory
            /\ i = Before.i

\* a draw that starts with VF = 1, runs past the bottom row and collides
\* with nothing: VF ends 0 and the top rows stay blank
C21_Witness ==
    /\ Returned /\ IsOp(LastOp, 13)
    /\ Before.v[15] = 1 /\ v[15] = 0
    /\ (Before.v[y(LastOp)] % 32) + n(LastOp) > LO_ROWS
    /\ lo_res # Before.display.lo_res
    /\ lo_res[0] = {}

\* ------------------------------------------------------------------- C22
\* C22: a call of draw of display.rs with x in 0 .. 63 returns, and leaves
\* the rows and returns the collision that draw of main.rs gives for the same
\* display and arguments, also when the sprite reaches past the right edge
\* (x > 56), where the bits past the edge are dropped.
C22_DrawsAgree ==
    LET main == Draw(drawn.d, drawn.x, drawn.y, drawn.sprite)
    IN  (LastCall \in {"draw", "panic"} /\ drawn.x \in 0 .. 63) =>
            /\ LastCall = "draw"
            /\ disp.lo_res = main.d.lo_res
            /\ disp.hi_res = main.d.hi_res
            /\ drawn.res = main.res

====
